---- MODULE Spec2Model ----
(***************************************************************************)
(* Model of the SecureChatbot message session controller                   *)
(* (src/components/SecureChatbot): the component state of                  *)
(* SecureChatbot.tsx, the sliding-window limiter of useRateLimit.hook.ts   *)
(* and the validator/sanitizer of SecureChatbot.utils.ts.                  *)
(*                                                                         *)
(* Text is a sequence of one-character strings, so that trim, length,      *)
(* pattern matching and HTML escaping are computed, not assumed.           *)
(* One action is one task of the JavaScript event loop: an event handler   *)
(* run up to its first await, or the settlement of a fetch / body read     *)
(* together with the microtasks that follow it.                            *)
(***************************************************************************)
EXTENDS Integers, Sequences, FiniteSets, TLC

(***************************************************************************)
(* Bounds and scaled-down configuration                                    *)
(***************************************************************************)
\* chatConfig.maxMessageLength (1000 by default, 500 in App.tsx), scaled down
maxMessageLength == 20
\* chatConfig.rateLimit.maxMessages (5 in App.tsx), scaled down
maxMessages == 2
\* chatConfig.rateLimit.windowMs (30000 in App.tsx), scaled down to clock ticks
windowMs == 2
\* last instant of the modelled clock
MaxNow == 3
\* number of identifiers generateSecureId may hand out after the first one
MaxId == 6

(***************************************************************************)
(* Text helpers                                                            *)
(***************************************************************************)
UpperCase == <<"A","B","C","D","E","F","G","H","I","J","K","L","M",
               "N","O","P","Q","R","S","T","U","V","W","X","Y","Z">>
LowerCase == <<"a","b","c","d","e","f","g","h","i","j","k","l","m",
               "n","o","p","q","r","s","t","u","v","w","x","y","z">>
Digits == {"0","1","2","3","4","5","6","7","8","9"}
WhiteSpace == {" ", "\t", "\n"}

Range(s) == {s[i] : i \in DOMAIN s}

\* the character, lower-cased (the i flag of the patterns)
ToLowerChar(c) ==
    IF \E i \in DOMAIN UpperCase : UpperCase[i] = c
    THEN LowerCase[CHOOSE i \in DOMAIN UpperCase : UpperCase[i] = c]
    ELSE c

ToLower(s) == [i \in DOMAIN s |-> ToLowerChar(s[i])]

\* \w of a regular expression
IsWordChar(c) == c \in Range(UpperCase) \cup Range(LowerCase) \cup Digits \cup {"_"}

\* p occurs in s starting at position i
MatchAt(s, p, i) ==
    /\ i >= 1
    /\ i + Len(p) - 1 <= Len(s)
    /\ \A k \in 1..Len(p) : s[i + k - 1] = p[k]

Contains(s, p) == \E i \in 1..(Len(s) + 1) : MatchAt(s, p, i)

\* String.prototype.trim
trim(s) ==
    LET keep == {i \in DOMAIN s : s[i] \notin WhiteSpace}
    IN  IF keep = {} THEN <<>>
        ELSE LET lo == CHOOSE i \in keep : \A j \in keep : i <= j
                 hi == CHOOSE i \in keep : \A j \in keep : j <= i
             IN  SubSeq(s, lo, hi)

(***************************************************************************)
(* SecurityUtils (SecureChatbot.utils.ts)                                  *)
(***************************************************************************)
\* what innerHTML gives back for one character of textContent
EscapeChar(c) ==
    CASE c = "&" -> <<"&","a","m","p",";">>
      [] c = "<" -> <<"&","l","t",";">>
      [] c = ">" -> <<"&","g","t",";">>
      [] OTHER   -> <<c>>

RECURSIVE sanitizeHtml(_)
sanitizeHtml(input) ==
    IF input = <<>> THEN <<>>
    ELSE EscapeChar(Head(input)) \o sanitizeHtml(Tail(input))

ScriptOpen == <<"<","s","c","r","i","p","t">>
ScriptClose == <<"<","/","s","c","r","i","p","t",">">>
JavascriptUri == <<"j","a","v","a","s","c","r","i","p","t",":">>
DataHtmlUri == <<"d","a","t","a",":","t","e","x","t","/","h","t","m","l">>
OnPrefix == <<"o","n">>

\* the deny-list of SecureChatbot.constants: script tags, javascript: URIs,
\* inline event handlers (on\w+\s*=) and data:text/html URIs
SUSPICIOUS_PATTERNS == {"script", "javascript", "handler", "datahtml"}

\* pattern.test(input), case-insensitive
test(pattern, input) ==
    LET s == ToLower(input)
    IN  CASE pattern = "script" ->
               \E i \in 1..Len(s) :
                  /\ MatchAt(s, ScriptOpen, i)
                  /\ (i + 7 > Len(s) \/ ~IsWordChar(s[i + 7]))
                  /\ \E j \in (i + 7)..Len(s) : MatchAt(s, ScriptClose, j)
          [] pattern = "javascript" -> Contains(s, JavascriptUri)
          [] pattern = "handler" ->
               \E i \in 1..Len(s) :
                  /\ MatchAt(s, OnPrefix, i)
                  /\ \E j \in (i + 3)..Len(s) :
                        /\ s[j] = "="
                        /\ \E k \in (i + 3)..j :
                              /\ \A m \in (i + 2)..(k - 1) : IsWordChar(s[m])
                              /\ \A m \in k..(j - 1) : s[m] \in WhiteSpace
          [] pattern = "datahtml" -> Contains(s, DataHtmlUri)

validateInput(input, maxLength) ==
    IF input = <<>> THEN FALSE
    ELSE IF Len(input) > maxLength THEN FALSE
    ELSE IF Len(trim(input)) = 0 THEN FALSE
    ELSE ~(\E pattern \in SUSPICIOUS_PATTERNS : test(pattern, input))

(***************************************************************************)
(* Inputs of the environment                                               *)
(***************************************************************************)
Blank == <<" ", " ">>
Question == <<" ", "a", "<", "b", " ">>
OnHandler == <<"O", "n", "x", " ", "=">>
ScriptTag == <<"<","S","c","r","i","p","t",">","x","<","/","s","c","r","i","p","t",">">>
TooLong == [i \in 1..(maxMessageLength + 4) |-> "a"]

\* what the user may type or paste into the input field
Inputs == {<<>>, Blank, Question, ScriptTag, TooLong}

\* the reply field of a well-formed server payload
Replies == {<<"<", "b", ">">>}

\* the language prop, at its default; i18n.language follows it
language == "en"

\* entries per language in the catalogue of generateMockResponse
CatalogueSize == 5

\* the values of Math.floor(Math.random() * 5) that are explored
Indices == {CatalogueSize - 1}

(***************************************************************************)
(* State                                                                   *)
(***************************************************************************)
VARIABLES
    mounted,            \* the component is mounted (state updates apply)
    isOpen,             \* useState isOpen
    isMaximized,        \* useState isMaximized
    messages,           \* useState messages: the message log
    inputValue,         \* useState inputValue: the input buffer
    isLoading,          \* useState isLoading: the busy flag
    connectionStatus,   \* useState connectionStatus
    sessionId,          \* useState sessionId
    abortControllerRef, \* 0 (null) or the exchange whose AbortController it holds
    messageTimestamps,  \* useRateLimit: the timestamp log
    exch,               \* the exchanges started by sendMessageToAPI, in order
    now,                \* Date.now()
    nextId,             \* the next identifier of generateSecureId
    lastOp              \* the last step: its send-intent handler and host callbacks

vars == <<mounted, isOpen, isMaximized, messages, inputValue, isLoading,
          connectionStatus, sessionId, abortControllerRef, messageTimestamps,
          exch, now, nextId, lastOp>>

\* the fixed text of the error bubble, t("Sorry, I encountered an error. ...")
ErrorText == <<"Sorry, I encountered an error. Please try again.">>
MockPrefix == <<" ","(","M","o","c","k"," ","R","e","s","p","o","n","s","e"," ","t","o",":"," ">>
InvalidMessage == "Invalid message content"
RateLimitExceeded == "Rate limit exceeded. Please wait before sending another message."
CallbackFailure == "onMessageSent threw"

\* what a step that made no host callback leaves in lastOp. op is
\* "handleSendMessage" when that handler ran, "suppressed" when Enter was
\* pressed without shift and handleKeyPress did not submit, "unmatched" when
\* the prev.map of a reconciliation found no message with the placeholder's
\* id in the log of the mounted component, "none" otherwise.
\* The other fields hold the arguments of the calls of the host callbacks of
\* ChatbotProps; the component never reads its onMaximizeChange prop (lines
\* 60-65), so no step puts a call there.
Op(name) ==
    [op |-> name, onError |-> <<>>, onMessageSent |-> <<>>, onMaximizeChange |-> <<>>]

Init ==
    /\ mounted = TRUE
    /\ isOpen = FALSE
    /\ isMaximized = FALSE
    /\ messages = <<>>
    /\ inputValue = <<>>
    /\ isLoading = FALSE
    /\ connectionStatus = "disconnected"
    /\ sessionId = 0
    /\ abortControllerRef = 0
    /\ messageTimestamps = <<>>
    /\ exch = <<>>
    /\ now = 0
    /\ nextId = 1
    /\ lastOp = Op("none")

(***************************************************************************)
(* useRateLimit (useRateLimit.hook.ts)                                     *)
(***************************************************************************)
\* a variant of recentMessages that still counts a send exactly windowMs old
recentMessages_Inclusive ==
    SelectSeq(messageTimestamps, LAMBDA timestamp : (now - timestamp) <= windowMs)

recentMessages == SelectSeq(messageTimestamps, LAMBDA timestamp : (now - timestamp) < windowMs)

\* a variant of canSendMessage that counts every recorded send, old or new
canSendMessage_CountsAll == Len(messageTimestamps) < maxMessages

\* a variant of canSendMessage that admits one send too many
canSendMessage_OffByOne == Len(recentMessages) <= maxMessages

canSendMessage == Len(recentMessages) < maxMessages

\* the timestamp log after recordMessage()
recordMessage == SelectSeq(messageTimestamps, LAMBDA ts : (now - ts) < windowMs) \o <<now>>

(***************************************************************************)
(* Request dispatcher (sendMessageToAPI, generateMockResponse)             *)
(***************************************************************************)
\* the catalogue of filler replies, one token per sentence
responses ==
    [en |-> <<"Sorry, I don't have the information to answer that.",
              "That's an interesting question!",
              "Let me look that up for you...",
              "Could you please provide more details?",
              "Thank you for your input!">>,
     fr |-> <<"Desole, je n'ai pas les informations necessaires pour repondre a cette question.",
              "C'est une question interessante!",
              "Laissez-moi chercher cela pour vous...",
              "Pourriez-vous fournir plus de details?",
              "Merci pour votre contribution!">>,
     pt |-> <<"Desculpe, nao tenho as informacoes para responder a isso.",
              "Essa e uma pergunta interessante!",
              "Deixe-me procurar isso para voce...",
              "Poderia fornecer mais detalhes?",
              "Obrigado pela sua contribuicao!">>]

\* a variant of generateMockResponse that leaves out the echo of the message
generateMockResponse_NoEcho(message, index) ==
    <<responses[language][index + 1]>>

\* responses[currentLanguage][index] + ` (Mock Response to: ${message})`,
\* index = Math.floor(Math.random() * responses[currentLanguage].length)
generateMockResponse(message, index) ==
    <<responses[language][index + 1]>> \o MockPrefix \o message \o <<")">>

\* abortControllerRef.current.abort(), when there is a controller
AbortCurrent(x) ==
    IF abortControllerRef # 0
    THEN [x EXCEPT ![abortControllerRef].aborted = TRUE]
    ELSE x

\* the exchange a call of sendMessageToAPI starts: its request body (lines
\* 177-186) and its AbortController's signal; late records, once the
\* exchange is reconciled, whether the signal had fired by then
NewExchange(message, botId) ==
    [botId |-> botId,
     text |-> message,
     pc |-> "fetch",
     aborted |-> FALSE,
     late |-> FALSE,
     request |-> [message |-> sanitizeHtml(message),
                  timestamp |-> now,
                  session_id |-> sessionId]]

\* a variant of sendMessageToAPI that does not abort the previous controller
sendMessageToAPI_NoAbort(message, botId) ==
    Append(exch, NewExchange(message, botId))

\* sendMessageToAPI up to its await of fetch: the exchanges after the call
sendMessageToAPI(message, botId) ==
    Append(AbortCurrent(exch), NewExchange(message, botId))

(***************************************************************************)
(* Session controller (SecureChatbot.tsx)                                  *)
(***************************************************************************)
Message(id, content, sender, status) ==
    [id |-> id, content |-> content, sender |-> sender, status |-> status]

\* a variant of UpdateMessage that rewrites every message of the log
UpdateMessage_All(prev, botId, content, status) ==
    [i \in DOMAIN prev |-> [prev[i] EXCEPT !.content = content, !.status = status]]

\* prev.map(msg => msg.id === botId ? {...msg, content, status} : msg)
UpdateMessage(prev, botId, content, status) ==
    [i \in DOMAIN prev |->
        IF prev[i].id = botId
        THEN [prev[i] EXCEPT !.content = content, !.status = status]
        ELSE prev[i]]

\* a variant of handleError that reports the error and leaves the status alone
handleError_NoStatus == connectionStatus

\* handleError(error): the status it sets; the host's onError runs with the
\* error, which the caller puts into lastOp.onError
handleError == "error"

\* a variant of Settle that appends the result as a new message
Settle_Appending(e, result) ==
    /\ exch' = [exch EXCEPT ![e].pc = "done", ![e].late = exch[e].aborted]
    /\ messages' = IF mounted
                   THEN Append(messages,
                               [id |-> exch[e].botId,
                                content |-> IF result.ok THEN result.value ELSE ErrorText,
                                sender |-> "bot",
                                status |-> IF result.ok THEN "sent" ELSE "error"])
                   ELSE messages
    /\ connectionStatus' = IF mounted /\ ~result.ok THEN "error" ELSE connectionStatus
    /\ lastOp' = IF result.ok THEN Op("none")
                 ELSE [Op("none") EXCEPT !.onError = <<result.value>>]
    /\ UNCHANGED <<mounted, isOpen, isMaximized, inputValue, sessionId,
                   abortControllerRef, messageTimestamps, now, nextId>>

\* what the try/catch of handleSendMessage (lines 272-283) makes of the result
\* of the dispatcher: result.ok is a returned reply, otherwise a thrown error.
\* State updates of an unmounted component are dropped by React.
Settle(e, result) ==
    LET op == IF mounted /\ \A i \in DOMAIN messages : messages[i].id # exch[e].botId
              THEN "unmatched"
              ELSE "none"
    IN
    /\ exch' = [exch EXCEPT ![e].pc = "done", ![e].late = exch[e].aborted]
    /\ IF result.ok
       THEN /\ messages' = IF mounted
                           THEN UpdateMessage(messages, exch[e].botId, result.value, "sent")
                           ELSE messages
            /\ connectionStatus' = connectionStatus
            /\ lastOp' = Op(op)
       ELSE /\ messages' = IF mounted
                           THEN UpdateMessage(messages, exch[e].botId, ErrorText, "error")
                           ELSE messages
            /\ connectionStatus' = IF mounted THEN handleError ELSE connectionStatus
            /\ lastOp' = [Op(op) EXCEPT !.onError = <<result.value>>]
    /\ UNCHANGED <<mounted, isOpen, isMaximized, inputValue, sessionId,
                   abortControllerRef, messageTimestamps, now, nextId>>

\* a variant of Reconcile without the finally block
Reconcile_NoFinally(e, result) ==
    /\ Settle(e, result)
    /\ isLoading' = isLoading

\* the tail of handleSendMessage once the dispatcher has settled (lines
\* 272-286), with its finally block
Reconcile(e, result) ==
    /\ Settle(e, result)
    /\ isLoading' = IF mounted THEN FALSE ELSE isLoading

\* a variant of AppendPair that puts the placeholder first
AppendPair_BotFirst(prev, userMessage, botMessage) == prev \o <<botMessage, userMessage>>

\* setMessages(prev => [...prev, userMessage, botMessage])
AppendPair(prev, userMessage, botMessage) == prev \o <<userMessage, botMessage>>

\* a variant of SendNothing that treats the empty text as invalid content
SendNothing_AsError ==
    /\ connectionStatus' = handleError
    /\ lastOp' = [Op("handleSendMessage") EXCEPT !.onError = <<InvalidMessage>>]
    /\ UNCHANGED <<mounted, isOpen, isMaximized, messages, inputValue,
                   isLoading, sessionId, abortControllerRef,
                   messageTimestamps, exch, now, nextId>>

\* handleSendMessage, line 233: nothing to send
SendNothing ==
    /\ lastOp' = Op("handleSendMessage")
    /\ UNCHANGED <<mounted, isOpen, isMaximized, messages, inputValue,
                   isLoading, connectionStatus, sessionId, abortControllerRef,
                   messageTimestamps, exch, now, nextId>>

\* a variant of SendRejected that notifies the host of the rejected text
SendRejected_Notifying(error) ==
    /\ connectionStatus' = handleError
    /\ lastOp' = [Op("handleSendMessage") EXCEPT
                     !.onError = <<error>>,
                     !.onMessageSent = <<trim(inputValue)>>]
    /\ UNCHANGED <<mounted, isOpen, isMaximized, messages, inputValue,
                   isLoading, sessionId, abortControllerRef,
                   messageTimestamps, exch, now, nextId>>

\* a variant of SendRejected that reports the error and leaves the status alone
SendRejected_NoStatus(error) ==
    /\ lastOp' = [Op("handleSendMessage") EXCEPT !.onError = <<error>>]
    /\ UNCHANGED <<mounted, isOpen, isMaximized, messages, inputValue,
                   isLoading, connectionStatus, sessionId, abortControllerRef,
                   messageTimestamps, exch, now, nextId>>

\* handleSendMessage, lines 235-243: handleError(error) and return
SendRejected(error) ==
    /\ connectionStatus' = handleError
    /\ lastOp' = [Op("handleSendMessage") EXCEPT !.onError = <<error>>]
    /\ UNCHANGED <<mounted, isOpen, isMaximized, messages, inputValue,
                   isLoading, sessionId, abortControllerRef,
                   messageTimestamps, exch, now, nextId>>

\* a variant of SendAccepted that dispatches without setting the busy flag
SendAccepted_NotBusy(trimmedInput, cbThrows) ==
    LET userMessage == Message(nextId, trimmedInput, "user", "sent")
        botMessage == Message(nextId + 1, <<>>, "bot", "sending")
        appended == AppendPair(messages, userMessage, botMessage)
    IN
    /\ nextId + 1 <= MaxId
    /\ messageTimestamps' = recordMessage
    /\ inputValue' = <<>>
    /\ nextId' = nextId + 2
    /\ isLoading' = isLoading
    /\ IF cbThrows
       THEN /\ messages' = UpdateMessage(appended, botMessage.id, ErrorText, "error")
            /\ connectionStatus' = handleError
            /\ lastOp' = [Op("handleSendMessage") EXCEPT
                             !.onMessageSent = <<trimmedInput>>,
                             !.onError = <<CallbackFailure>>]
            /\ UNCHANGED <<exch, abortControllerRef>>
       ELSE /\ messages' = appended
            /\ connectionStatus' = "connected"
            /\ exch' = sendMessageToAPI(trimmedInput, botMessage.id)
            /\ abortControllerRef' = Len(exch) + 1
            /\ lastOp' = [Op("handleSendMessage") EXCEPT
                             !.onMessageSent = <<trimmedInput>>]
    /\ UNCHANGED <<mounted, isOpen, isMaximized, sessionId, now>>

\* handleSendMessage, lines 245-270, up to the await of the dispatcher.
\* cbThrows: the host's onMessageSent callback throws, so that the catch and
\* finally blocks (lines 277-286) run in the same task.
SendAccepted(trimmedInput, cbThrows) ==
    LET userMessage == Message(nextId, trimmedInput, "user", "sent")
        botMessage == Message(nextId + 1, <<>>, "bot", "sending")
        appended == AppendPair(messages, userMessage, botMessage)
    IN
    /\ nextId + 1 <= MaxId
    /\ messageTimestamps' = recordMessage
    /\ inputValue' = <<>>
    /\ nextId' = nextId + 2
    /\ IF cbThrows
       THEN /\ messages' = UpdateMessage(appended, botMessage.id, ErrorText, "error")
            /\ isLoading' = FALSE
            /\ connectionStatus' = handleError
            /\ lastOp' = [Op("handleSendMessage") EXCEPT
                             !.onMessageSent = <<trimmedInput>>,
                             !.onError = <<CallbackFailure>>]
            /\ UNCHANGED <<exch, abortControllerRef>>
       ELSE /\ messages' = appended
            /\ isLoading' = TRUE
            /\ connectionStatus' = "connected"
            /\ exch' = sendMessageToAPI(trimmedInput, botMessage.id)
            /\ abortControllerRef' = Len(exch) + 1
            /\ lastOp' = [Op("handleSendMessage") EXCEPT
                             !.onMessageSent = <<trimmedInput>>]
    /\ UNCHANGED <<mounted, isOpen, isMaximized, sessionId, now>>

\* a variant of handleSendMessage that skips validateInput
handleSendMessage_NoValidation(cbThrows) ==
    LET trimmedInput == trim(inputValue)
    IN  IF trimmedInput = <<>> THEN SendNothing
        ELSE IF ~canSendMessage THEN SendRejected(RateLimitExceeded)
        ELSE SendAccepted(trimmedInput, cbThrows)

\* a variant of handleSendMessage that skips canSendMessage
handleSendMessage_NoRateCheck(cbThrows) ==
    LET trimmedInput == trim(inputValue)
    IN  IF trimmedInput = <<>> THEN SendNothing
        ELSE IF ~validateInput(trimmedInput, maxMessageLength)
        THEN SendRejected(InvalidMessage)
        ELSE SendAccepted(trimmedInput, cbThrows)

\* handleSendMessage up to its first await
handleSendMessage(cbThrows) ==
    LET trimmedInput == trim(inputValue)
    IN  IF trimmedInput = <<>> THEN SendNothing
        ELSE IF ~validateInput(trimmedInput, maxMessageLength)
        THEN SendRejected(InvalidMessage)
        ELSE IF ~canSendMessage THEN SendRejected(RateLimitExceeded)
        ELSE SendAccepted(trimmedInput, cbThrows)

\* a variant of handleKeyPress that submits while busy
handleKeyPress_NoBusyCheck(key, shiftKey, cbThrows) ==
    /\ mounted
    /\ isOpen
    /\ IF key = "Enter" /\ ~shiftKey
       THEN handleSendMessage(cbThrows)
       ELSE /\ lastOp' = Op("none")
            /\ UNCHANGED <<mounted, isOpen, isMaximized, messages, inputValue,
                           isLoading, connectionStatus, sessionId, abortControllerRef,
                           messageTimestamps, exch, now, nextId>>

\* Enter in the input field. The key event is modelled for every state of the
\* open widget; the handler itself decides whether it submits.
handleKeyPress(key, shiftKey, cbThrows) ==
    /\ mounted
    /\ isOpen
    /\ IF key = "Enter" /\ ~shiftKey /\ ~isLoading
       THEN handleSendMessage(cbThrows)
       ELSE /\ lastOp' = Op(IF key = "Enter" /\ ~shiftKey THEN "suppressed" ELSE "none")
            /\ UNCHANGED <<mounted, isOpen, isMaximized, messages, inputValue,
                           isLoading, connectionStatus, sessionId, abortControllerRef,
                           messageTimestamps, exch, now, nextId>>

\* the send button: disabled={isLoading || !inputValue.trim()}
SendButtonDisabled == isLoading \/ trim(inputValue) = <<>>

ClickSend(cbThrows) ==
    /\ mounted
    /\ isOpen
    /\ ~SendButtonDisabled
    /\ handleSendMessage(cbThrows)

\* the text field: disabled={isLoading}
handleInputChange(value) ==
    /\ mounted
    /\ isOpen
    /\ ~isLoading
    /\ inputValue' = IF Len(value) <= maxMessageLength THEN value ELSE inputValue
    /\ lastOp' = Op("none")
    /\ UNCHANGED <<mounted, isOpen, isMaximized, messages, isLoading,
                   connectionStatus, sessionId, abortControllerRef,
                   messageTimestamps, exch, now, nextId>>

toggleChatbot ==
    /\ mounted
    /\ isOpen' = ~isOpen
    /\ lastOp' = Op("none")
    /\ UNCHANGED <<mounted, isMaximized, messages, inputValue, isLoading,
                   connectionStatus, sessionId, abortControllerRef,
                   messageTimestamps, exch, now, nextId>>

toggleMaximize ==
    /\ mounted
    /\ isOpen
    /\ isMaximized' = ~isMaximized
    /\ lastOp' = Op("none")
    /\ UNCHANGED <<mounted, isOpen, messages, inputValue, isLoading,
                   connectionStatus, sessionId, abortControllerRef,
                   messageTimestamps, exch, now, nextId>>

\* crypto.randomUUID(): a value that was never handed out before
generateSecureId == nextId

\* a variant of handleNewSession that keeps the log
handleNewSession_KeepLog ==
    /\ mounted
    /\ isOpen
    /\ nextId <= MaxId
    /\ sessionId' = generateSecureId
    /\ nextId' = nextId + 1
    /\ lastOp' = Op("none")
    /\ UNCHANGED <<mounted, isOpen, isMaximized, messages, inputValue, isLoading,
                   connectionStatus, abortControllerRef, messageTimestamps, exch, now>>

\* a variant of handleNewSession that also cancels the exchange in flight
handleNewSession_Aborting ==
    /\ mounted
    /\ isOpen
    /\ nextId <= MaxId
    /\ messages' = <<>>
    /\ sessionId' = generateSecureId
    /\ nextId' = nextId + 1
    /\ exch' = AbortCurrent(exch)
    /\ lastOp' = Op("none")
    /\ UNCHANGED <<mounted, isOpen, isMaximized, inputValue, isLoading,
                   connectionStatus, abortControllerRef, messageTimestamps, now>>

handleNewSession ==
    /\ mounted
    /\ isOpen
    /\ nextId <= MaxId
    /\ messages' = <<>>
    /\ sessionId' = generateSecureId
    /\ nextId' = nextId + 1
    /\ lastOp' = Op("none")
    /\ UNCHANGED <<mounted, isOpen, isMaximized, inputValue, isLoading,
                   connectionStatus, abortControllerRef, messageTimestamps, exch, now>>

\* unmount: the cleanup effect aborts the current controller (lines 116-122)
\* and React discards the component's state, shown here as its initial values
Unmount ==
    /\ mounted
    /\ mounted' = FALSE
    /\ exch' = AbortCurrent(exch)
    /\ isOpen' = FALSE
    /\ isMaximized' = FALSE
    /\ messages' = <<>>
    /\ inputValue' = <<>>
    /\ isLoading' = FALSE
    /\ connectionStatus' = "disconnected"
    /\ messageTimestamps' = <<>>
    /\ lastOp' = Op("none")
    /\ UNCHANGED <<sessionId, abortControllerRef, now, nextId>>

\* the clock advances
Tick ==
    /\ now < MaxNow
    /\ now' = now + 1
    /\ lastOp' = Op("none")
    /\ UNCHANGED <<mounted, isOpen, isMaximized, messages, inputValue,
                   isLoading, connectionStatus, sessionId, abortControllerRef,
                   messageTimestamps, exch, nextId>>

FetchOutcomes == {"networkError", "abortError", "notOk", "badContentType", "okJson"}
JsonOutcomes == {"parseError", "abortError", "noReply", "reply"}

\* a variant of FetchSettled whose dispatcher rethrows what it catches
FetchSettled_Strict(e, outcome, index) ==
    /\ e \in DOMAIN exch
    /\ exch[e].pc = "fetch"
    /\ outcome = "abortError" => exch[e].aborted
    /\ IF outcome = "okJson"
       THEN /\ exch' = [exch EXCEPT ![e].pc = "json"]
            /\ lastOp' = Op("none")
            /\ UNCHANGED <<mounted, isOpen, isMaximized, messages, inputValue,
                           isLoading, connectionStatus, sessionId, abortControllerRef,
                           messageTimestamps, now, nextId>>
       ELSE Reconcile(e, [ok |-> FALSE, value |-> outcome])

\* the fetch of exchange e settles (lines 188-206, 214-218): only a successful
\* response of type application/json goes on to read its body; anything else
\* returns the mock reply, which handleSendMessage reconciles.
FetchSettled(e, outcome, index) ==
    /\ e \in DOMAIN exch
    /\ exch[e].pc = "fetch"
    /\ outcome = "abortError" => exch[e].aborted
    /\ IF outcome = "okJson"
       THEN /\ exch' = [exch EXCEPT ![e].pc = "json"]
            /\ lastOp' = Op("none")
            /\ UNCHANGED <<mounted, isOpen, isMaximized, messages, inputValue,
                           isLoading, connectionStatus, sessionId, abortControllerRef,
                           messageTimestamps, now, nextId>>
       ELSE Reconcile(e,
                      [ok |-> TRUE, value |-> generateMockResponse(exch[e].text, index)])

\* a variant of JsonSettled whose dispatcher rethrows what it catches
JsonSettled_Strict(e, outcome, index, reply) ==
    /\ e \in DOMAIN exch
    /\ exch[e].pc = "json"
    /\ outcome = "abortError" => exch[e].aborted
    /\ Reconcile(e,
                 IF outcome = "reply"
                 THEN [ok |-> TRUE, value |-> sanitizeHtml(reply)]
                 ELSE [ok |-> FALSE, value |-> outcome])

\* a variant of JsonSettled that returns data.reply as it came
JsonSettled_Raw(e, outcome, index, reply) ==
    /\ e \in DOMAIN exch
    /\ exch[e].pc = "json"
    /\ outcome = "abortError" => exch[e].aborted
    /\ Reconcile(e,
                 IF outcome = "reply"
                 THEN [ok |-> TRUE, value |-> reply]
                 ELSE [ok |-> TRUE, value |-> generateMockResponse(exch[e].text, index)])

\* response.json() of exchange e settles (lines 208-218)
JsonSettled(e, outcome, index, reply) ==
    /\ e \in DOMAIN exch
    /\ exch[e].pc = "json"
    /\ outcome = "abortError" => exch[e].aborted
    /\ Reconcile(e,
                 IF outcome = "reply"
                 THEN [ok |-> TRUE, value |-> sanitizeHtml(reply)]
                 ELSE [ok |-> TRUE, value |-> generateMockResponse(exch[e].text, index)])

FetchStep ==
    \E e \in DOMAIN exch, outcome \in FetchOutcomes, index \in Indices :
        FetchSettled(e, outcome, index)

JsonStep ==
    \E e \in DOMAIN exch, outcome \in JsonOutcomes, index \in Indices, reply \in Replies :
        JsonSettled(e, outcome, index, reply)

\* the session controller: every intent and event but the layout toggle
Next ==
    \/ \E key \in {"Enter", "a"}, shiftKey \in BOOLEAN, cbThrows \in BOOLEAN :
          handleKeyPress(key, shiftKey, cbThrows)
    \/ \E cbThrows \in BOOLEAN : ClickSend(cbThrows)
    \/ \E value \in Inputs : handleInputChange(value)
    \/ toggleChatbot
    \/ handleNewSession
    \/ Unmount
    \/ Tick
    \/ FetchStep
    \/ JsonStep

Spec == Init /\ [][Next]_vars

\* every network request settles in the end
LiveSpec == Spec /\ WF_vars(FetchStep) /\ WF_vars(JsonStep)

\* the whole widget, the maximize toggle included
WidgetNext == Next \/ toggleMaximize

WidgetSpec == Init /\ [][WidgetNext]_vars

(***************************************************************************)
(* Properties                                                              *)
(***************************************************************************)
\* the step ran handleSendMessage (every action sets lastOp)
OnSend == lastOp'.op = "handleSendMessage"

\* the input buffer holds something to send
HasText == trim(inputValue) # <<>>

\* the exchanges that have not been reconciled
InFlight == {e \in DOMAIN exch : exch[e].pc # "done"}

\* positions of the log
Bots == {i \in DOMAIN messages : messages[i].sender = "bot"}

\* ---- C1 ---------------------------------------------------------------
C1_Paired ==
    \A i \in Bots :
        /\ i > 1
        /\ messages[i - 1].sender = "user"
        /\ messages[i - 1].status = "sent"
        /\ messages[i - 1].id + 1 = messages[i].id
        /\ \A e \in DOMAIN exch :
              exch[e].botId = messages[i].id => messages[i - 1].content = exch[e].text

C1_Append ==
    (OnSend /\ HasText /\ validateInput(trim(inputValue), maxMessageLength) /\ canSendMessage)
    => LET n == Len(messages)
       IN  /\ Len(messages') = n + 2
           /\ SubSeq(messages', 1, n) = messages
           /\ messages'[n + 1] = Message(nextId, trim(inputValue), "user", "sent")
           /\ messages'[n + 2].sender = "bot"
           /\ messages'[n + 2].id = nextId + 1
           /\ IF lastOp'.onError = <<>>
              THEN messages'[n + 2].status = "sending" /\ messages'[n + 2].content = <<>>
              ELSE messages'[n + 2].status = "error" /\ lastOp'.onError = <<CallbackFailure>>

\* C1: an accepted onSend appends, in one update of the log, the user message
\* (sent, the trimmed text) and right after it the bot placeholder (sending,
\* empty; already resolved to error in the same update when onMessageSent
\* threw), and in every state every bot message directly follows the user
\* message it was created with.
C1_AtomicPair == []C1_Paired /\ [][C1_Append]_vars

C1_Witness ==
    /\ Len(messages) >= 2
    /\ messages[Len(messages)].sender = "bot"
    /\ messages[Len(messages)].status = "sending"
    /\ messages[Len(messages) - 1].content = trim(Question)

\* ---- C2 ---------------------------------------------------------------
\* texts of the input set that the deny-list must reject
DenyListed == {ScriptTag, OnHandler}

\* C2: an onSend whose trimmed text is not empty and fails validateInput (too
\* long or deny-listed) leaves the log, the timestamp log, the exchanges and
\* the busy flag alone, does not call onMessageSent and calls onError once,
\* with the validation error.
C2_InvalidRejected ==
    [][(/\ OnSend
        /\ HasText
        /\ \/ ~validateInput(trim(inputValue), maxMessageLength)
           \/ trim(inputValue) \in DenyListed
           \/ Len(trim(inputValue)) > maxMessageLength)
       => /\ messages' = messages
          /\ messageTimestamps' = messageTimestamps
          /\ exch' = exch
          /\ abortControllerRef' = abortControllerRef
          /\ isLoading' = isLoading
          /\ lastOp'.onMessageSent = <<>>
          /\ lastOp'.onError = <<InvalidMessage>>]_vars

C2_Witness ==
    /\ lastOp.op = "handleSendMessage"
    /\ lastOp.onError = <<InvalidMessage>>
    /\ inputValue = ScriptTag

\* ---- C3 ---------------------------------------------------------------
\* C3: a valid onSend issued while canSendMessage() is false leaves the log,
\* the timestamp log (no recordMessage) and the exchanges alone, and calls
\* onError once, with the rate-limit error.
C3_RateLimitedRejected ==
    [][(/\ OnSend
        /\ HasText
        /\ validateInput(trim(inputValue), maxMessageLength)
        /\ Len(SelectSeq(messageTimestamps, LAMBDA t : now - t < windowMs)) >= maxMessages)
       => /\ messages' = messages
          /\ messageTimestamps' = messageTimestamps
          /\ exch' = exch
          /\ abortControllerRef' = abortControllerRef
          /\ isLoading' = isLoading
          /\ lastOp'.onMessageSent = <<>>
          /\ lastOp'.onError = <<RateLimitExceeded>>]_vars

C3_Witness ==
    /\ lastOp.op = "handleSendMessage"
    /\ lastOp.onError = <<RateLimitExceeded>>
    /\ Len(messageTimestamps) = maxMessages
    /\ inputValue = Question

\* ---- C4 ---------------------------------------------------------------
\* the instants of the sends that reached the dispatcher
SentAt(e) == exch[e].request.timestamp

\* the accepted sends inside the window of length windowMs that ends at T
InWindow(T) == {e \in DOMAIN exch : T - windowMs < SentAt(e) /\ SentAt(e) <= T}

\* C4: at every instant up to now, the window of length windowMs that ends
\* there holds at most maxMessages sends that reached the dispatcher.
C4_SlidingWindow == \A T \in 0..now : Cardinality(InWindow(T)) <= maxMessages

\* a full window whose sends lie on both sides of a multiple of windowMs,
\* and a further attempt that was turned away
C4_Witness ==
    /\ Cardinality(InWindow(now)) = maxMessages
    /\ \E e1, e2 \in InWindow(now) :
          /\ SentAt(e1) < SentAt(e2)
          /\ SentAt(e2) % windowMs = 0
    /\ lastOp.onError = <<RateLimitExceeded>>

\* ---- C5 ---------------------------------------------------------------
\* every recorded send is windowMs old or older
AgedOut == \A i \in DOMAIN messageTimestamps : now - messageTimestamps[i] >= windowMs

C5_StaysClosed == (~canSendMessage /\ now' = now /\ mounted') => ~canSendMessage'

C5_Reopens == (messageTimestamps # <<>> /\ AgedOut) => canSendMessage

C5_NextAccepted ==
    (/\ OnSend
     /\ HasText
     /\ validateInput(trim(inputValue), maxMessageLength)
     /\ messageTimestamps # <<>>
     /\ AgedOut)
    => /\ Len(messages') = Len(messages) + 2
       /\ messageTimestamps' = <<now>>

\* C5: while the clock stands still a closed limiter stays closed (for as
\* long as the component is mounted); once every
\* recorded send is windowMs old or older canSendMessage() is true again and
\* the next valid onSend is accepted, the aged-out sends being pruned.
C5_Recovery == []C5_Reopens /\ [][C5_StaysClosed]_vars /\ [][C5_NextAccepted]_vars

C5_Witness ==
    /\ Len(exch) = maxMessages + 1
    /\ SentAt(1) = SentAt(maxMessages)
    /\ messageTimestamps = <<now>>
    /\ SentAt(maxMessages + 1) = now
    /\ now - SentAt(1) >= windowMs

\* ---- C6 ---------------------------------------------------------------
\* the message with this id is in the log as a placeholder
Sending(id) == \E i \in DOMAIN messages : messages[i].id = id /\ messages[i].status = "sending"

\* exchange e is reconciled in this step
Resolves(e) == e \in InFlight /\ exch'[e].pc = "done"

C6_Resolved ==
    /\ \A e \in DOMAIN exch :
          (Resolves(e) /\ mounted)
          => /\ ~isLoading'
             /\ \A i \in DOMAIN messages' :
                   messages'[i].id = exch[e].botId => messages'[i].status \in {"sent", "error"}
    /\ (OnSend /\ lastOp'.onError = <<CallbackFailure>>)
       => /\ ~isLoading'
          /\ messages'[Len(messages')].status = "error"

C6_BusyMeansInFlight ==
    mounted => /\ isLoading <=> (\E e \in InFlight : ~exch[e].aborted)
               /\ \A id \in 1..MaxId : Sending(id) => \E e \in InFlight : exch[e].botId = id

\* nothing is pending: no exchange in flight, busy clear, no placeholder
Quiet ==
    /\ InFlight = {}
    /\ ~isLoading
    /\ \A id \in 1..MaxId : ~Sending(id)

\* C6: every accepted exchange, whatever its outcome, is reconciled in the
\* end; the step that reconciles it clears the busy flag and leaves its
\* placeholder, when still in the log, sent or error (a throwing onMessageSent
\* does so within the accepting step); the busy flag is set only while an
\* exchange is in flight, so with every request settling every run returns,
\* again and again, to a state with no exchange in flight, busy clear and no
\* placeholder in sending: none of them stays forever.
C6_BusyAlwaysCleared ==
    /\ []C6_BusyMeansInFlight
    /\ [][C6_Resolved]_vars
    /\ []<>Quiet

C6_Witness ==
    /\ mounted
    /\ ~isLoading
    /\ InFlight = {}
    /\ exch # <<>>
    /\ \E i, j \in Bots : messages[i].status = "sent" /\ messages[j].status = "error"

\* ---- C7 ---------------------------------------------------------------
FetchFallbacks == {"networkError", "notOk", "badContentType"}

JsonFallbacks == {"parseError", "noReply"}

\* exchange e meets one of the fallback conditions in this step
FallsBack(e) ==
    \E index \in Indices :
        \/ \E outcome \in FetchFallbacks : FetchSettled(e, outcome, index)
        \/ \E outcome \in JsonFallbacks, reply \in Replies : JsonSettled(e, outcome, index, reply)

C7_Fallback ==
    \A e \in DOMAIN exch :
        FallsBack(e)
        => /\ exch'[e].pc = "done"
           /\ lastOp'.onError = <<>>
           /\ mounted
              => /\ connectionStatus = "connected"
                 /\ connectionStatus' = "connected"
                 /\ \A i \in DOMAIN messages' :
                       messages'[i].id = exch[e].botId
                       => /\ messages'[i].status = "sent"
                          /\ Contains(messages'[i].content, exch[e].text)
                          /\ Contains(messages'[i].content, MockPrefix)

EnterPressed == \E cbThrows \in BOOLEAN : handleKeyPress("Enter", FALSE, cbThrows)

\* the exchange of the current controller is in flight and not cancelled
CurrentRuns ==
    /\ abortControllerRef \in InFlight
    /\ ~exch[abortControllerRef].aborted

C8_NoSecondExchange ==
    (isLoading /\ EnterPressed)
    => /\ messages' = messages
       /\ exch' = exch
       /\ abortControllerRef' = abortControllerRef
       /\ isLoading'
       /\ messageTimestamps' = messageTimestamps
       /\ lastOp' = Op("suppressed")

C8_ButtonDisabled == isLoading => \A cbThrows \in BOOLEAN : ~ClickSend(cbThrows)

\* C8 (as the code has it): an onSend issued while the first exchange is
\* unresolved is suppressed altogether: no pair is appended, handleSendMessage
\* does not run, no callback fires, and the first exchange is left in flight,
\* not cancelled; the Send button takes no click while busy.
C8_SendWhileBusySuppressed == [][C8_NoSecondExchange /\ C8_ButtonDisabled]_vars

\* C8 (as stated): an onSend issued while busy appends nothing and cancels
\* the first exchange.
C8_SendWhileBusyCancels ==
    [][(isLoading /\ CurrentRuns /\ EnterPressed)
       => /\ messages' = messages
          /\ exch'[abortControllerRef].aborted]_vars

C8_Witness ==
    /\ mounted
    /\ isLoading
    /\ lastOp.op = "suppressed"
    /\ CurrentRuns
    /\ Len(messages) = 2
    /\ messages[2].status = "sending"

\* ---- C9 ---------------------------------------------------------------
\* exchanges in flight whose cancellation signal has not fired
Outstanding == {e \in InFlight : ~exch[e].aborted}

\* C9: every exchange but the one started last has had its cancellation
\* signalled, and at most one exchange is in flight with its signal unfired.
C9_SingleOutstanding ==
    /\ \A e \in DOMAIN exch : e < Len(exch) => exch[e].aborted
    /\ Cardinality(Outstanding) <= 1

C9_Witness ==
    /\ Len(exch) >= 2
    /\ \A e \in 1..(Len(exch) - 1) : exch[e].aborted
    /\ Outstanding = {Len(exch)}

\* ---- C10 --------------------------------------------------------------
C10_NewSession ==
    handleNewSession
    => /\ messages' = <<>>
       /\ sessionId' # sessionId
       /\ \A e \in DOMAIN exch : sessionId' # exch[e].request.session_id
       /\ connectionStatus' = connectionStatus
       /\ isLoading' = isLoading
       /\ messageTimestamps' = messageTimestamps
       /\ exch' = exch
       /\ abortControllerRef' = abortControllerRef

\* C10: onNewSession, also while an exchange is in flight, empties the log
\* and replaces sessionId by a value that differs from the previous one (and
\* from that of every earlier request), leaving connectionStatus, the busy
\* flag, the limiter's timestamps and the exchange in flight, which is not
\* cancelled, as they were.
C10_NewSessionFrame == [][C10_NewSession]_vars

C10_Witness ==
    /\ mounted
    /\ messages = <<>>
    /\ sessionId # 0
    /\ isLoading
    /\ connectionStatus = "connected"
    /\ messageTimestamps # <<>>
    /\ CurrentRuns
    /\ exch[abortControllerRef].request.session_id # sessionId

\* ---- C11 --------------------------------------------------------------
\* the onSend of this step passes every check of handleSendMessage
Accepted ==
    /\ OnSend
    /\ HasText
    /\ validateInput(trim(inputValue), maxMessageLength)
    /\ Len(SelectSeq(messageTimestamps, LAMBDA t : now - t < windowMs)) < maxMessages

C11_NotifiedOnce ==
    /\ Accepted => lastOp'.onMessageSent = <<trim(inputValue)>>
    /\ ~Accepted => lastOp'.onMessageSent = <<>>

\* C11: the step of an accepted onSend calls onMessageSent exactly once, with
\* the trimmed text; every other step (an empty onSend, one rejected by
\* validation or by the rate limiter, any other operation) does not call it.
C11_MessageSentOnce == [][C11_NotifiedOnce]_vars

C11_Witness ==
    /\ lastOp.op = "handleSendMessage"
    /\ lastOp.onMessageSent = <<trim(Question)>>
    /\ lastOp.onError = <<>>
    /\ messages[Len(messages) - 1].content = trim(Question)
    /\ Len(messageTimestamps) = maxMessages

\* ---- C12 --------------------------------------------------------------
\* the host's onMessageSent throws in the accepted onSend of this step
NotificationFails == Accepted /\ SendAccepted(trim(inputValue), TRUE)

\* C12 (as stated): when onMessageSent throws, the dispatcher is still called
\* with the trimmed text, the placeholder is left for the dispatcher's result
\* to resolve, and onError is not called.
C12_NotificationFailureIgnored ==
    [][NotificationFails
       => /\ Len(exch') = Len(exch) + 1
          /\ exch'[Len(exch')].text = trim(inputValue)
          /\ messages'[Len(messages')].status = "sending"
          /\ isLoading'
          /\ lastOp'.onError = <<>>]_vars

\* what the code does instead: no exchange, the placeholder already error
C12_Witness ==
    /\ lastOp.onMessageSent = <<trim(Question)>>
    /\ lastOp.onError = <<CallbackFailure>>
    /\ messages[Len(messages)].status = "error"
    /\ messages[Len(messages)].content = ErrorText
    /\ connectionStatus = "error"
    /\ ~isLoading
    /\ exch = <<>>

\* ---- C13 --------------------------------------------------------------
\* the body of exchange e turns out not to be JSON, or to lack a string reply
BadPayload(e) ==
    \E outcome \in {"parseError", "noReply"}, index \in Indices, reply \in Replies :
        JsonSettled(e, outcome, index, reply)

\* C13 (as stated): when the response is not valid JSON or has no reply
\* string, the placeholder of that exchange ends with the fixed error text and
\* status error.
C13_BadPayloadShowsError ==
    [][\A e \in DOMAIN exch :
          (mounted /\ BadPayload(e))
          => \A i \in DOMAIN messages' :
                messages'[i].id = exch[e].botId
                => /\ messages'[i].status = "error"
                   /\ messages'[i].content = ErrorText]_vars

\* ---- C14 --------------------------------------------------------------
\* the log position of the placeholder of exchange e, if it is in the log
PlaceholderOf(e) == {i \in Bots : messages[i].id = exch[e].botId}

\* C14 (as stated): the message field of every request is the sanitized user
\* text, and the user text in the log, as the content of the user message and
\* as the echo inside a fallback reply, is the sanitized text too.
C14_AllSanitized ==
    \A e \in DOMAIN exch :
        /\ exch[e].request.message = sanitizeHtml(exch[e].text)
        /\ \A i \in PlaceholderOf(e) :
              /\ messages[i - 1].content = sanitizeHtml(exch[e].text)
              /\ Contains(messages[i].content, MockPrefix)
                 => Contains(messages[i].content, MockPrefix \o sanitizeHtml(exch[e].text))

\* the raw text is in the log while the request carries the sanitized text
C14_Witness ==
    \E e \in DOMAIN exch :
        /\ exch[e].text = trim(Question)
        /\ exch[e].request.message = sanitizeHtml(trim(Question))
        /\ exch[e].request.message # exch[e].text
        /\ \E i \in PlaceholderOf(e) :
              /\ messages[i - 1].content = trim(Question)
              /\ Contains(messages[i].content, MockPrefix \o trim(Question))

\* ---- C15 --------------------------------------------------------------
C15_Status ==
    /\ (Accepted /\ lastOp'.onError = <<>>) => connectionStatus' = "connected"
    /\ (lastOp'.onError # <<>> /\ mounted') => connectionStatus' = "error"
    /\ (~Accepted /\ lastOp'.onError = <<>> /\ mounted')
       => connectionStatus' = connectionStatus
    /\ (connectionStatus # "disconnected" /\ mounted')
       => connectionStatus' # "disconnected"

\* C15: connectionStatus starts disconnected; an accepted send leaves it
\* connected, unless the send itself already failed through onError; every
\* step that calls onError leaves it error; every other step of the mounted
\* component (reconciliation with a reply or a fallback, new session, open and
\* close, maximize, typing, the clock) leaves it as it was, and it never goes
\* back to disconnected while the component is mounted.
C15_ConnectionStatus == (connectionStatus = "disconnected") /\ [][C15_Status]_vars

C15_Witness ==
    /\ mounted
    /\ connectionStatus = "error"
    /\ lastOp.onError = <<>>
    /\ isMaximized
    /\ ~isOpen
    /\ messages = <<>>
    /\ sessionId # 0
    /\ \E e \in DOMAIN exch : exch[e].pc = "done"

\* ---- C16 --------------------------------------------------------------
\* C16 (as stated): every toggle of the maximized layout calls
\* onMaximizeChange with the new value.
C16_MaximizeNotified ==
    [][toggleMaximize => lastOp'.onMaximizeChange = <<isMaximized'>>]_vars

\* the layout was toggled and the host heard nothing
C16_Witness ==
    /\ mounted
    /\ isOpen
    /\ isMaximized
    /\ lastOp.onMaximizeChange = <<>>
    /\ messages = <<>>
    /\ exch = <<>>

\* ---- C17 --------------------------------------------------------------
\* the positions of the timestamp log that lie inside the window
RecentStamps == {i \in DOMAIN messageTimestamps : now - messageTimestamps[i] < windowMs}

C17_Verdict == canSendMessage <=> Cardinality(RecentStamps) < maxMessages

C17_Query ==
    (OnSend /\ HasText /\ validateInput(trim(inputValue), maxMessageLength))
    => /\ Len(messages') = Len(messages) + 2 <=> Cardinality(RecentStamps) < maxMessages
       /\ Cardinality(RecentStamps) >= maxMessages
          => /\ messageTimestamps' = messageTimestamps
             /\ canSendMessage' = canSendMessage

\* C17: canSendMessage() is true exactly when fewer than maxMessages recorded
\* timestamps ts have now - ts < windowMs; an onSend that gets as far as
\* asking it is accepted exactly when it is true, and when it is false the
\* timestamp log is the same after the call as before, so that asking again
\* gives the same answer.
C17_CanSendPure == []C17_Verdict /\ [][C17_Query]_vars

C17_Witness ==
    /\ lastOp.onError = <<RateLimitExceeded>>
    /\ ~canSendMessage
    /\ Len(messageTimestamps) = maxMessages
    /\ messageTimestamps[1] < messageTimestamps[Len(messageTimestamps)]
    /\ Cardinality(RecentStamps) = maxMessages

\* ---- C18 --------------------------------------------------------------
\* an exchange is superseded only after it has been reconciled, so that the
\* only exchange cancelled while in flight is the one cut off by the teardown
C18_CancelledInFlight ==
    /\ \A e \in DOMAIN exch : e < Len(exch) => exch[e].pc = "done"
    /\ \A e \in InFlight : exch[e].aborted => ~mounted

C18_LateSettlement ==
    \A e \in DOMAIN exch :
        (exch[e].aborted /\ Resolves(e))
        => /\ messages' = messages
           /\ isLoading' = isLoading
           /\ connectionStatus' = connectionStatus
           /\ lastOp'.onError = <<>>
           /\ lastOp'.onMessageSent = <<>>

\* C18: the settlement of an exchange whose cancellation was signalled before
\* it was reconciled changes no message of the log, neither the busy flag nor
\* connectionStatus, and calls no host callback; such an exchange is always
\* one cancelled by the teardown, because a later exchange only ever starts
\* after the earlier one has been reconciled.
C18_LateSettlementNoOp == []C18_CancelledInFlight /\ [][C18_LateSettlement]_vars

C18_Witness ==
    /\ ~mounted
    /\ \E e \in DOMAIN exch :
          /\ exch[e].pc = "done"
          /\ exch[e].late
    /\ messages = <<>>
    /\ ~isLoading

\* ---- C19 --------------------------------------------------------------
\* C19: in every state of the mounted component in which an exchange has been
\* dispatched and not yet reconciled, and so whenever a bot message of the log
\* has status sending, the busy flag is true.
C19_BusyThroughout ==
    mounted
    => /\ InFlight # {} => isLoading
       /\ (\E i \in Bots : messages[i].status = "sending") => isLoading

C19_Witness ==
    /\ mounted
    /\ isLoading
    /\ ~isOpen
    /\ abortControllerRef \in InFlight
    /\ exch[abortControllerRef].pc = "json"
    /\ \E i \in Bots : messages[i].status = "sending"

\* ---- C20 --------------------------------------------------------------
\* the identifiers of the messages in the log
Ids == {messages[i].id : i \in DOMAIN messages}

\* every message of the log has the status its sender allows
C20_Statuses ==
    \A i \in DOMAIN messages :
        IF messages[i].sender = "user"
        THEN messages[i].status = "sent"
        ELSE /\ messages[i].status \in {"sending", "sent", "error"}
             /\ messages[i].status = "sending" => messages[i].content = <<>>

C20_Step ==
    \A j \in DOMAIN messages' :
        /\ \A i \in DOMAIN messages :
              messages[i].id = messages'[j].id
              => /\ messages'[j].sender = messages[i].sender
                 /\ messages[i].status # "sending" => messages'[j] = messages[i]
                 /\ messages'[j].status = "sending" => messages'[j] = messages[i]
        /\ messages'[j].id \notin Ids
           => IF messages'[j].sender = "user"
              THEN messages'[j].status = "sent"
              ELSE \/ messages'[j].status = "sending" /\ messages'[j].content = <<>>
                   \/ /\ messages'[j].status = "error"
                      /\ lastOp'.onError = <<CallbackFailure>>

\* C20: a user message enters the log with status sent and is never changed;
\* a bot message enters it with status sending and empty content (or, when
\* onMessageSent threw, with its one transition to error already made in the
\* same update) and changes once at most, from sending to sent or error; no
\* message goes back to sending, and a message whose status is sent or error
\* keeps its content, status, id and sender for as long as it is in the log.
C20_StatusMonotonic == []C20_Statuses /\ [][C20_Step]_vars

C20_Witness ==
    /\ Len(messages) = 4
    /\ messages[2].status = "sent"
    /\ messages[4].status = "error"
    /\ messages[1].status = "sent"
    /\ messages[3].content = trim(Question)

\* ---- C21 --------------------------------------------------------------
\* the body of exchange e is read and holds the reply r
Replied(e, r) == \E index \in Indices : JsonSettled(e, "reply", index, r)

C21_InPlace ==
    \A e \in DOMAIN exch, r \in Replies :
        (mounted /\ Replied(e, r))
        => /\ Len(messages') = Len(messages)
           /\ \A i \in DOMAIN messages :
                 messages'[i] = IF messages[i].id = exch[e].botId
                                THEN [messages[i] EXCEPT !.content = sanitizeHtml(r),
                                                         !.status = "sent"]
                                ELSE messages[i]
           /\ connectionStatus' = "connected"
           /\ (Len(messages) = 2 /\ messages[2].id = exch[e].botId)
              => messages' = <<Message(messages[1].id, exch[e].text, "user", "sent"),
                               Message(exch[e].botId, sanitizeHtml(r), "bot", "sent")>>

\* C21: the step that reconciles an exchange with the reply r of the server
\* rewrites, at its place, the one message whose id is the placeholder's id
\* of that exchange (content the sanitized r, status sent) and leaves the
\* length of the log, its order and every other message as they were; after
\* onSend(x) on an empty log the log is [user x sent, bot sanitize(r) sent]
\* and connectionStatus is connected.
C21_ReconcileInPlace == [][C21_InPlace]_vars

C21_Witness ==
    /\ mounted
    /\ messages = <<Message(1, trim(Question), "user", "sent"),
                    Message(2, sanitizeHtml(<<"<", "b", ">">>), "bot", "sent")>>
    /\ connectionStatus = "connected"
    /\ ~isLoading

\* ---- C22 --------------------------------------------------------------
\* the step fires the cancellation signal of exchange e
Cancels(e) == ~exch[e].aborted /\ exch'[e].aborted

\* messages in status error after the step that were not so before it
NewErrors ==
    {j \in DOMAIN messages' :
        /\ messages'[j].status = "error"
        /\ \A i \in DOMAIN messages :
              messages[i].id = messages'[j].id => messages[i].status # "error"}

C22_Silent ==
    \A e \in DOMAIN exch :
        (Cancels(e) \/ (exch[e].aborted /\ Resolves(e)))
        => /\ lastOp'.onError = <<>>
           /\ connectionStatus' # "error" \/ connectionStatus = "error"
           /\ NewErrors = {}

\* C22: neither the step that signals the cancellation of an exchange (the
\* next dispatch, the teardown) nor the settlement of an exchange whose
\* cancellation was signalled calls onError, turns connectionStatus to error
\* or puts a message into status error.
C22_CancelledNeverSurfaced == [][C22_Silent]_vars

C22_Witness ==
    /\ ~mounted
    /\ Len(exch) >= 2
    /\ exch[1].aborted /\ ~exch[1].late
    /\ exch[Len(exch)].late
    /\ lastOp.onError = <<>>
    /\ connectionStatus = "disconnected"

\* ---- C23 --------------------------------------------------------------
\* the catch block of handleSendMessage runs in this step: onError is called
\* with something other than the two rejections that precede the try
CatchRan ==
    /\ lastOp'.onError # <<>>
    /\ lastOp'.onError \notin {<<InvalidMessage>>, <<RateLimitExceeded>>}

\* the placeholders of the exchange that fails in this step
FailedIds ==
    IF OnSend THEN {nextId + 1}
    ELSE {exch[e].botId : e \in {x \in DOMAIN exch : Resolves(x)}}

C23_Surfaced ==
    CatchRan
    => /\ Len(lastOp'.onError) = 1
       /\ FailedIds # {}
       /\ mounted'
          => /\ connectionStatus' = "error"
             /\ ~isLoading'
             /\ \A j \in DOMAIN messages' :
                   messages'[j].id \in FailedIds
                   => /\ messages'[j].status = "error"
                      /\ messages'[j].content = ErrorText
             /\ OnSend => messages'[Len(messages')].id \in FailedIds

\* C23: the step in which an exception reaches the catch of handleSendMessage
\* gives the placeholder of that exchange the fixed error text and status
\* error, calls onError once, leaves connectionStatus error and busy clear.
C23_SurfacedFailure == [][C23_Surfaced]_vars

C23_Witness ==
    /\ mounted
    /\ lastOp.onError = <<CallbackFailure>>
    /\ Len(messages) = 4
    /\ messages[2].status = "sent"
    /\ messages[4].status = "error"
    /\ messages[4].content = ErrorText
    /\ connectionStatus = "error"
    /\ ~isLoading

\* ---- C24 --------------------------------------------------------------
\* the texts a server reply becomes on its way through the sanitizer
SanitizedReplies == {sanitizeHtml(r) : r \in Replies}

\* the bot messages that an exchange resolved with something else than the
\* locally generated reply
ServerAnswered ==
    {i \in Bots : messages[i].status = "sent" /\ ~Contains(messages[i].content, MockPrefix)}

\* C24: every bot message that holds a reply of the server holds the
\* sanitized reply, with no "<" or ">" of the server's text left in it.
C24_ReplySanitized ==
    \A i \in ServerAnswered :
        /\ messages[i].content \in SanitizedReplies
        /\ "<" \notin Range(messages[i].content)
        /\ ">" \notin Range(messages[i].content)

C24_Witness ==
    \E i \in ServerAnswered :
        /\ messages[i].content = <<"&","l","t",";","b","&","g","t",";">>
        /\ messages[i].content \notin Replies

\* ---- C25 --------------------------------------------------------------
\* C25: an onSend whose input is empty after trimming changes neither the
\* log, the input buffer, the busy flag, connectionStatus, the timestamp log
\* nor the exchanges, and calls neither onError nor onMessageSent.
C25_EmptySendNoOp ==
    [][(OnSend /\ ~HasText)
       => /\ messages' = messages
          /\ inputValue' = inputValue
          /\ isLoading' = isLoading
          /\ connectionStatus' = connectionStatus
          /\ messageTimestamps' = messageTimestamps
          /\ exch' = exch
          /\ abortControllerRef' = abortControllerRef
          /\ lastOp'.onError = <<>>
          /\ lastOp'.onMessageSent = <<>>]_vars

\* Enter on a buffer of blanks, after a send that was turned away
C25_Witness ==
    /\ lastOp = Op("handleSendMessage")
    /\ inputValue = Blank
    /\ connectionStatus = "error"
    /\ messages # <<>>
    /\ messageTimestamps # <<>>

\* ---- C26 --------------------------------------------------------------
\* exchange e was started in an earlier session
FromEarlierSession(e) == exch[e].request.session_id # sessionId

C26_OldSettlement ==
    \A e \in DOMAIN exch :
        (Resolves(e) /\ FromEarlierSession(e)) => messages' = messages

\* identifiers are handed out in increasing order, so a message appended
\* after onNewSession has an id above the sessionId drawn by it
C26_OnlyNewMessages ==
    /\ \A i \in DOMAIN messages : messages[i].id > sessionId
    /\ \A e \in DOMAIN exch : PlaceholderOf(e) # {} => ~FromEarlierSession(e)

\* C26: the settlement of an exchange started before onNewSession leaves the
\* log as it is, and in every state the log holds only messages appended
\* after the last onNewSession, each placeholder belonging to an exchange of
\* the current session.
C26_SessionIsolation == []C26_OnlyNewMessages /\ [][C26_OldSettlement]_vars

\* an exchange of an earlier session has just been reconciled in the new
\* session and found no placeholder
C26_Witness ==
    /\ mounted
    /\ lastOp.op = "unmatched"
    /\ sessionId # 0
    /\ messages = <<>>
    /\ ~isLoading
    /\ \E e \in DOMAIN exch :
          /\ exch[e].pc = "done"
          /\ FromEarlierSession(e)
          /\ ~exch[e].late

====
